---- MODULE Spec2Model ----
(***************************************************************************)
(* Model of the content downloader's server core:                          *)
(*   - utils/browserPool.js: the shared pool of Puppeteer browsers         *)
(*     (browserPool, browserQueue, getBrowser, releaseBrowser);            *)
(*   - services/instagram.js and services/facebook.js: the two download    *)
(*     orchestrators (downloadInstagramContent, downloadFacebookContent)   *)
(*     and their downloadFallbackContent.                                  *)
(* Node runs the requests as cooperative tasks on one thread: an action is *)
(* the code a task runs between two awaits that wait for I/O.              *)
(***************************************************************************)
EXTENDS Integers, Sequences, FiniteSets, TLC

\* ---------------------------------------------------------------- bounds
\* Number of download requests the HTTP layer submits in one run.
MaxRequests == 3

\* Number of times a client of the exported pool API may call
\* releaseBrowser on the handle it was given (PoolSpec only).
MaxReleases == 2

\* ------------------------------------------------------- program constants
MAX_BROWSERS == 2

Requests == 1..MaxRequests

\* A browser is named after the request whose getBrowser call launched it;
\* Undefined is the value of an unassigned `let browserInstance`.
Undefined == 0

Platforms == <<"instagram", "facebook">>
ContentTypes == <<"post", "story", "reel", "highlight">>

\* The DownloadRequest of request r (immutable once created): the requests of
\* a run alternate between the two platforms and cycle through the content
\* types.
Platform(r) == Platforms[((r - 1) % 2) + 1]
ContentType(r) == ContentTypes[((r - 1) % 4) + 1]

VARIABLES
    browserPool,      \* browserPool.js: idle handles, a stack (push/pop)
    browserQueue,     \* browserPool.js: resolvers of suspended getBrowser calls
    launched,         \* the browsers puppeteer.launch has produced
    pc,               \* per request: the await the task is suspended at
    browserInstance,  \* per request: `let browserInstance`
    page,             \* per request: `let page` ("none", "open", "closed")
    error,            \* per request: the error caught by the outer catch
    mediaType,        \* per request: mediaData[0].type once extracted
    file,             \* per request: the primary and the fallback file on disk
    manifest,         \* per request: the object of the `return` statement
    thrown,           \* per request: the error the call rejects with
    releases,         \* per request: number of releaseBrowser calls made
    statSize,         \* stats.size of the file a manifest is built for
    sizeLabel,        \* the manifest's size: formatFileSize(stats.size)
    dom,              \* the elements of a rendered page, in document order
    domPlatform,      \* the platform whose extractor runs on dom
    mediaData,        \* what page.evaluate returned for dom
    extractPc,        \* what the orchestrator does with mediaData
    written,          \* the files named so far, in order of the calls
    route,            \* a POST /api/download request and what the route did
    closeAllPc,       \* where the closeAllBrowsers call is
    closeTarget,      \* the browser whose close() closeAllBrowsers awaits
    disconnected,     \* browsers whose process is gone (closed or died)
    idleAtCall,       \* the idle browsers when closeAllBrowsers was called
    releasedWhileClosing  \* browsers pushed to the pool during that call

vars == <<browserPool, browserQueue, launched, pc, browserInstance, page,
          error, mediaType, file, manifest, thrown, releases,
          statSize, sizeLabel, dom, domPlatform, mediaData, extractPc,
          written, route,
          closeAllPc, closeTarget, disconnected, idleAtCall,
          releasedWhileClosing>>

\* The variables of the specifications of the pure functions (formatFileSize,
\* the in-page extractor); the orchestrator actions leave them alone.
fnVars == <<statSize, sizeLabel, dom, domPlatform, mediaData, extractPc,
           written, route>>

\* The state of the closeAllBrowsers call and of the browser processes.
closeVars == <<closeAllPc, closeTarget, disconnected, idleAtCall>>

poolVars == <<browserPool, browserQueue, launched>>
dataVars == <<error, mediaType, file, manifest, thrown>>

NoManifest == [success |-> FALSE, contentType |-> "none", note |-> "none",
               source |-> "none"]

\* No label computed yet.
NoLabel == [value |-> 0 - 1, unit |-> "none"]

\* A byte count of 0 (byte counts are written in base 1024, see Digits).
NoBytes == <<0>>

\* ------------------------------------------------------------------ pool
\* A getBrowser that suspends every caller that finds the idle pool empty.
getBrowserAlwaysQueues ==
    IF Len(browserPool) > 0 THEN "reuse" ELSE "enqueue"

\* Which of its three branches getBrowser takes in the current pool state.
\* A pool that serves one caller at a time: a call made while any handle is
\* checked out waits for it.
getBrowserOneAtATime ==
    IF \E r \in Requests : browserInstance[r] # Undefined /\ releases[r] = 0
    THEN "enqueue"
    ELSE IF Len(browserPool) > 0 THEN "reuse"
    ELSE "launch"

\* A pool that compares the number of browsers out (held or being
\* launched) with MAX_BROWSERS, not the length of the waiter queue.
getBrowserCountsBrowsers ==
    IF Len(browserPool) > 0 THEN "reuse"
    ELSE IF Cardinality({r \in Requests :
                            \/ pc[r] = "Launching"
                            \/ browserInstance[r] # Undefined
                                   /\ releases[r] = 0}) >= MAX_BROWSERS
         THEN "enqueue"
    ELSE "launch"

getBrowser ==
    IF Len(browserPool) > 0 THEN "reuse"
    ELSE IF Len(browserQueue) >= MAX_BROWSERS THEN "enqueue"
    ELSE "launch"

\* A pop that reads the last element and leaves it in the pool.
PoolRestKeepsTop == browserPool

\* A reuse that hands out the oldest idle handle.
PoolBottom == browserPool[1]

\* browserPool.pop(): the last element, and the rest.
PoolTop == browserPool[Len(browserPool)]
PoolRest == SubSeq(browserPool, 1, Len(browserPool) - 1)

\* A releaseBrowser that forgets the handle when nobody waits.
releaseBrowserDrops(browser) ==
    IF browser # Undefined /\ Len(browserQueue) > 0
    THEN [pool |-> browserPool, queue |-> Tail(browserQueue),
          nextRequester |-> Head(browserQueue)]
    ELSE [pool |-> browserPool, queue |-> browserQueue, nextRequester |-> 0]

\* releaseBrowser(browser): the pool, the queue and the waiter whose promise
\* is resolved with the browser (0 when none is).
releaseBrowser(browser) ==
    IF browser # Undefined
    THEN IF Len(browserQueue) > 0
         THEN [pool |-> browserPool, queue |-> Tail(browserQueue),
               nextRequester |-> Head(browserQueue)]
         ELSE [pool |-> Append(browserPool, browser), queue |-> browserQueue,
               nextRequester |-> 0]
    ELSE [pool |-> browserPool, queue |-> browserQueue, nextRequester |-> 0]

\* The pool and the requests after module load, before any request arrived.
OrchInit ==
    /\ browserPool = <<>>
    /\ browserQueue = <<>>
    /\ launched = {}
    /\ pc = [r \in Requests |-> "Queued"]
    /\ browserInstance = [r \in Requests |-> Undefined]
    /\ page = [r \in Requests |-> "none"]
    /\ error = [r \in Requests |-> "none"]
    /\ mediaType = [r \in Requests |-> "none"]
    /\ file = [r \in Requests |-> [primary |-> "absent", fallback |-> "absent"]]
    /\ manifest = [r \in Requests |-> NoManifest]
    /\ thrown = [r \in Requests |-> "none"]
    /\ releases = [r \in Requests |-> 0]

\* Nothing has been formatted or extracted.
\* No request has been posted to the route.
NoOutcome == [status |-> "none", service |-> "none", contentType |-> "none"]
NoRoute == [url |-> <<>>, platform |-> "undefined",
            contentType |-> "undefined", outcome |-> NoOutcome]

FnIdle ==
    /\ statSize = NoBytes
    /\ sizeLabel = NoLabel
    /\ dom = <<>>
    /\ domPlatform = "instagram"
    /\ mediaData = <<>>
    /\ extractPc = "idle"
    /\ written = <<>>
    /\ route = NoRoute

\* closeAllBrowsers has not been called and every browser process lives.
CloseIdle ==
    /\ closeAllPc = "idle"
    /\ closeTarget = Undefined
    /\ disconnected = {}
    /\ idleAtCall = {}
    /\ releasedWhileClosing = {}

Init == OrchInit /\ FnIdle /\ CloseIdle

\* ------------------------------------------------- acquiring (getBrowser)
\* The request handler calls downloadInstagramContent/downloadFacebookContent,
\* which runs up to `await getBrowser()`; getBrowser runs its synchronous part.
Arrive(r) ==
    /\ pc[r] = "Queued"
    /\ CASE getBrowser = "reuse" ->
              /\ browserPool' = PoolRest
              /\ browserInstance' = [browserInstance EXCEPT ![r] = PoolTop]
              /\ pc' = [pc EXCEPT ![r] = "NewPage"]
              /\ UNCHANGED browserQueue
         [] getBrowser = "enqueue" ->
              /\ browserQueue' = Append(browserQueue, r)
              /\ pc' = [pc EXCEPT ![r] = "Waiting"]
              /\ UNCHANGED <<browserPool, browserInstance>>
         [] getBrowser = "launch" ->
              /\ pc' = [pc EXCEPT ![r] = "Launching"]
              /\ UNCHANGED <<browserPool, browserQueue, browserInstance>>
    /\ UNCHANGED <<launched, page, releases>>
    /\ UNCHANGED dataVars
    /\ UNCHANGED fnVars
    /\ UNCHANGED closeVars
    /\ UNCHANGED releasedWhileClosing

\* puppeteer.launch resolves: getBrowser returns the new browser, the
\* orchestrator assigns it and calls browserInstance.newPage().
LaunchOk(r) ==
    /\ pc[r] = "Launching"
    /\ launched' = launched \cup {r}
    /\ browserInstance' = [browserInstance EXCEPT ![r] = r]
    /\ pc' = [pc EXCEPT ![r] = "NewPage"]
    /\ UNCHANGED <<browserPool, browserQueue, page, releases>>
    /\ UNCHANGED dataVars
    /\ UNCHANGED fnVars
    /\ UNCHANGED closeVars
    /\ UNCHANGED releasedWhileClosing


\* --------------------------------------------------- fallback and cleanup
\* isVideo of downloadFallbackContent, and the mediaType it serves.
isVideo(contentType) ==
    contentType = "reel" \/ contentType = "story" \/ contentType = "video"

\* The choice of the test-content service: reel and highlight are videos.
FallbackMediaTypeOfTestContent(contentType) ==
    IF contentType \in {"reel", "highlight"} THEN "video" ELSE "image"

FallbackMediaType(contentType) ==
    IF isVideo(contentType) THEN "video" ELSE "image"

\* The outer catch block up to its `await downloadFallbackContent(...)`:
\* `error` is bound, the try block's `const media` is out of scope, the file
\* at downloadedFilePath (if any) is unlinked and the fallback's axios request
\* is issued.
EnterCatch(r, kind) ==
    /\ error' = [error EXCEPT ![r] = kind]
    /\ mediaType' = [mediaType EXCEPT ![r] = "none"]
    /\ file' = [file EXCEPT ![r].primary = "absent"]
    /\ pc' = [pc EXCEPT ![r] = "FallbackFetch"]

\* The finally block's `if (browserInstance) releaseBrowser(browserInstance)`
\* and the end of the call. A waiter handed the browser resumes at its
\* `browserInstance.newPage()`.
ReleaseAndEnd(r) ==
    LET rel == releaseBrowser(browserInstance[r])
        w == rel.nextRequester
    IN  /\ browserPool' = rel.pool
        /\ browserQueue' = rel.queue
        /\ releases' = [releases EXCEPT
                          ![r] = IF browserInstance[r] # Undefined
                                 THEN @ + 1 ELSE @]
        /\ pc' = IF w # 0
                 THEN [pc EXCEPT ![r] = "Done", ![w] = "NewPage"]
                 ELSE [pc EXCEPT ![r] = "Done"]
        /\ browserInstance' =
               IF w # 0
               THEN [browserInstance EXCEPT ![w] = browserInstance[r]]
               ELSE browserInstance
        /\ releasedWhileClosing' =
               IF /\ closeAllPc = "closing"
                  /\ browserInstance[r] # Undefined
                  /\ w = 0
               THEN releasedWhileClosing \cup {browserInstance[r]}
               ELSE releasedWhileClosing

\* The finally block: `if (page) await page.close()` suspends the task;
\* without a page the release runs at once.
Finally(r) ==
    IF page[r] = "open"
    THEN /\ pc' = [pc EXCEPT ![r] = "Closing"]
         /\ UNCHANGED <<browserPool, browserQueue, browserInstance, releases>>
         /\ UNCHANGED releasedWhileClosing
    ELSE ReleaseAndEnd(r)

\* A failed launch that leaves its caller behind in the waiter queue.
LaunchFailLeavesWaiter(r) ==
    /\ pc[r] = "Launching"
    /\ EnterCatch(r, "AcquisitionFailure")
    /\ browserQueue' = Append(browserQueue, r)
    /\ UNCHANGED <<browserPool, launched, browserInstance, page, releases>>
    /\ UNCHANGED <<manifest, thrown>>
    /\ UNCHANGED fnVars
    /\ UNCHANGED closeVars
    /\ UNCHANGED releasedWhileClosing

\* puppeteer.launch rejects: getBrowser rejects, the outer catch runs with
\* browserInstance and page still undefined.
LaunchFail(r) ==
    /\ pc[r] = "Launching"
    /\ EnterCatch(r, "AcquisitionFailure")
    /\ UNCHANGED <<poolVars, browserInstance, page, releases>>
    /\ UNCHANGED <<manifest, thrown>>
    /\ UNCHANGED fnVars
    /\ UNCHANGED closeVars
    /\ UNCHANGED releasedWhileClosing

\* ------------------------------------------------------------- navigating
\* newPage resolves; setUserAgent, setViewport and page.goto are issued.
NewPageOk(r) ==
    /\ pc[r] = "NewPage"
    /\ page' = [page EXCEPT ![r] = "open"]
    /\ pc' = [pc EXCEPT ![r] = "Navigating"]
    /\ UNCHANGED <<poolVars, browserInstance, releases>>
    /\ UNCHANGED dataVars
    /\ UNCHANGED fnVars
    /\ UNCHANGED closeVars
    /\ UNCHANGED releasedWhileClosing

NewPageFail(r) ==
    /\ pc[r] = "NewPage"
    /\ EnterCatch(r, "NewPageFailure")
    /\ UNCHANGED <<poolVars, browserInstance, page, releases>>
    /\ UNCHANGED <<manifest, thrown>>
    /\ UNCHANGED fnVars
    /\ UNCHANGED closeVars
    /\ UNCHANGED releasedWhileClosing

\* page.goto resolves; the wait for the main-content marker starts.
GotoOk(r) ==
    /\ pc[r] = "Navigating"
    /\ pc' = [pc EXCEPT ![r] = "WaitMarker"]
    /\ UNCHANGED <<poolVars, browserInstance, page, releases>>
    /\ UNCHANGED dataVars
    /\ UNCHANGED fnVars
    /\ UNCHANGED closeVars
    /\ UNCHANGED releasedWhileClosing

\* A failed navigation that is tried again on a fresh tab.
GotoFailRetries(r) ==
    /\ pc[r] = "Navigating"
    /\ pc' = [pc EXCEPT ![r] = "NewPage"]
    /\ UNCHANGED <<poolVars, browserInstance, page, releases>>
    /\ UNCHANGED dataVars
    /\ UNCHANGED fnVars
    /\ UNCHANGED closeVars
    /\ UNCHANGED releasedWhileClosing

\* page.goto (or setUserAgent/setViewport) rejects: timeout, network error.
GotoFail(r) ==
    /\ pc[r] = "Navigating"
    /\ EnterCatch(r, "NavigationFailure")
    /\ UNCHANGED <<poolVars, browserInstance, page, releases>>
    /\ UNCHANGED <<manifest, thrown>>
    /\ UNCHANGED fnVars
    /\ UNCHANGED closeVars
    /\ UNCHANGED releasedWhileClosing

\* The marker selector(s) appear. Instagram then looks for the login modal
\* inside the same try block; Facebook only waits a fixed delay.
MarkerFound(r) ==
    /\ pc[r] = "WaitMarker"
    /\ pc' = [pc EXCEPT ![r] = IF Platform(r) = "instagram"
                                THEN "Dismiss" ELSE "Extracting"]
    /\ UNCHANGED <<poolVars, browserInstance, page, releases>>
    /\ UNCHANGED dataVars
    /\ UNCHANGED fnVars
    /\ UNCHANGED closeVars
    /\ UNCHANGED releasedWhileClosing

\* The marker wait with the throw that the catch block leaves commented out.
MarkerTimeoutThrows(r) ==
    /\ pc[r] = "WaitMarker"
    /\ EnterCatch(r, "NavigationFailure")
    /\ UNCHANGED <<poolVars, browserInstance, page, releases>>
    /\ UNCHANGED <<manifest, thrown>>
    /\ UNCHANGED fnVars
    /\ UNCHANGED closeVars
    /\ UNCHANGED releasedWhileClosing

\* waitForSelector times out: caught (selectorError), page.evaluate is issued.
MarkerTimeout(r) ==
    /\ pc[r] = "WaitMarker"
    /\ pc' = [pc EXCEPT ![r] = "Extracting"]
    /\ UNCHANGED <<poolVars, browserInstance, page, releases>>
    /\ UNCHANGED dataVars
    /\ UNCHANGED fnVars
    /\ UNCHANGED closeVars
    /\ UNCHANGED releasedWhileClosing

\* Instagram's modal handling ends (dismissed, absent, or its error caught
\* as modalError); page.evaluate is issued.
DismissDone(r) ==
    /\ pc[r] = "Dismiss"
    /\ pc' = [pc EXCEPT ![r] = "Extracting"]
    /\ UNCHANGED <<poolVars, browserInstance, page, releases>>
    /\ UNCHANGED dataVars
    /\ UNCHANGED fnVars
    /\ UNCHANGED closeVars
    /\ UNCHANGED releasedWhileClosing

\* ------------------------------------------------------------- extracting
\* page.evaluate returns a non-empty mediaData; mediaData[0] has type kind.
\* downloadedFilePath is set and the axios GET is issued.
EvaluateFound(r, kind) ==
    /\ pc[r] = "Extracting"
    /\ mediaType' = [mediaType EXCEPT ![r] = kind]
    /\ pc' = [pc EXCEPT ![r] = "Fetching"]
    /\ UNCHANGED <<poolVars, browserInstance, page, releases>>
    /\ UNCHANGED <<error, file, manifest, thrown>>
    /\ UNCHANGED fnVars
    /\ UNCHANGED closeVars
    /\ UNCHANGED releasedWhileClosing

\* mediaData.length === 0: throw new Error('No media found ...').
EvaluateEmpty(r) ==
    /\ pc[r] = "Extracting"
    /\ EnterCatch(r, "ExtractionEmpty")
    /\ UNCHANGED <<poolVars, browserInstance, page, releases>>
    /\ UNCHANGED <<manifest, thrown>>
    /\ UNCHANGED fnVars
    /\ UNCHANGED closeVars
    /\ UNCHANGED releasedWhileClosing

\* page.evaluate rejects (page crashed, context destroyed).
EvaluateThrow(r) ==
    /\ pc[r] = "Extracting"
    /\ EnterCatch(r, "EvaluateFailure")
    /\ UNCHANGED <<poolVars, browserInstance, page, releases>>
    /\ UNCHANGED <<manifest, thrown>>
    /\ UNCHANGED fnVars
    /\ UNCHANGED closeVars
    /\ UNCHANGED releasedWhileClosing

\* --------------------------------------------------------------- manifests
\* A primary manifest whose kind is derived from the requested content type
\* instead of mediaData[0].type.
PrimaryManifestRequestedKind(r) ==
    [success |-> TRUE, contentType |-> FallbackMediaType(ContentType(r)),
     note |-> "none", source |-> "primary"]

\* The object the try block returns: contentType is media.type of
\* mediaData[0], localPath names the primary file, there is no note.
PrimaryManifest(r) ==
    [success |-> TRUE, contentType |-> mediaType[r],
     note |-> "none", source |-> "primary"]

\* What downloadFallbackContent returns: localPath names the fallback file,
\* the kind follows the requested content type, the note is the provider's
\* own generic one.
FallbackResult(contentType) ==
    [success |-> TRUE, contentType |-> FallbackMediaType(contentType),
     note |-> "FallbackContent", source |-> "fallback"]

\* `{ note, ...fallbackResult }`: the provider's note wins.
FallbackManifestOwnNote(r) == FallbackResult(ContentType(r))

\* `{ ...fallbackResult, note: `Primary download failed: ${error.message}.
\* Serving fallback content.` }`: note holds the kind of the error it quotes.
FallbackManifest(r) ==
    [FallbackResult(ContentType(r)) EXCEPT !.note = error[r]]

\* --------------------------------------------------------------- fetching
\* A fetch that does not await the writer's 'finish': the manifest is
\* returned as soon as the body is piped.
FetchOkWithoutAwait(r) ==
    /\ pc[r] = "Fetching"
    /\ file' = [file EXCEPT ![r].primary = "partial"]
    /\ manifest' = [manifest EXCEPT ![r] = PrimaryManifest(r)]
    /\ Finally(r)
    /\ UNCHANGED <<launched, page, error, mediaType, thrown>>
    /\ UNCHANGED fnVars
    /\ UNCHANGED closeVars

\* axios resolves with the response stream; the write stream is created
\* (the destination file now exists, incomplete) and the body is piped.
FetchOk(r) ==
    /\ pc[r] = "Fetching"
    /\ file' = [file EXCEPT ![r].primary = "partial"]
    /\ pc' = [pc EXCEPT ![r] = "Writing"]
    /\ UNCHANGED <<poolVars, browserInstance, page, releases>>
    /\ UNCHANGED <<error, mediaType, manifest, thrown>>
    /\ UNCHANGED fnVars
    /\ UNCHANGED closeVars
    /\ UNCHANGED releasedWhileClosing

\* axios rejects (timeout, HTTP error), or creating the write stream throws:
\* no file was created; the catch's unlink finds nothing (ENOENT).
FetchFail(r) ==
    /\ pc[r] = "Fetching"
    /\ EnterCatch(r, "FetchFailure")
    /\ UNCHANGED <<poolVars, browserInstance, page, releases>>
    /\ UNCHANGED <<manifest, thrown>>
    /\ UNCHANGED fnVars
    /\ UNCHANGED closeVars
    /\ UNCHANGED releasedWhileClosing

\* The writer emits 'error': its handler unlinks the file and rejects; the
\* outer catch unlinks downloadedFilePath again.
WriteError(r) ==
    /\ pc[r] = "Writing"
    /\ EnterCatch(r, "FetchFailure")
    /\ UNCHANGED <<poolVars, browserInstance, page, releases>>
    /\ UNCHANGED <<manifest, thrown>>
    /\ UNCHANGED fnVars
    /\ UNCHANGED closeVars
    /\ UNCHANGED releasedWhileClosing

\* The response stream errors or stops delivering data after the headers
\* arrived: pipe() forwards neither to the writer, only the writer's 'finish'
\* and 'error' settle the awaited promise, and axios' timeout covers the
\* request, whose promise has already resolved. No event is left to come.
WriteStall(r) ==
    /\ pc[r] = "Writing"
    /\ pc' = [pc EXCEPT ![r] = "WriteStalled"]
    /\ UNCHANGED <<poolVars, browserInstance, page, releases>>
    /\ UNCHANGED dataVars
    /\ UNCHANGED fnVars
    /\ UNCHANGED closeVars
    /\ UNCHANGED releasedWhileClosing

\* The writer emits 'finish', stat resolves, and the try block returns the
\* manifest; the finally block runs before the caller sees it.
WriteFinish(r) ==
    /\ pc[r] = "Writing"
    /\ file' = [file EXCEPT ![r].primary = "complete"]
    /\ manifest' = [manifest EXCEPT ![r] = PrimaryManifest(r)]
    /\ Finally(r)
    /\ UNCHANGED <<launched, page, error, mediaType, thrown>>
    /\ UNCHANGED fnVars
    /\ UNCHANGED closeVars

\* ------------------------------------------------------------ falling back
\* downloadFallbackContent: axios resolves, the fallback file is created.
FallbackFetchOk(r) ==
    /\ pc[r] = "FallbackFetch"
    /\ file' = [file EXCEPT ![r].fallback = "partial"]
    /\ pc' = [pc EXCEPT ![r] = "FallbackWrite"]
    /\ UNCHANGED <<poolVars, browserInstance, page, releases>>
    /\ UNCHANGED <<error, mediaType, manifest, thrown>>
    /\ UNCHANGED fnVars
    /\ UNCHANGED closeVars
    /\ UNCHANGED releasedWhileClosing

\* The fallback's axios rejects or its write stream cannot be created:
\* downloadFallbackContent throws, the orchestrator throws
\* `Failed to download content from ... or provide fallback: ${error.message}`.
FallbackFetchFail(r) ==
    /\ pc[r] = "FallbackFetch"
    /\ thrown' = [thrown EXCEPT ![r] = "FallbackFailure"]
    /\ Finally(r)
    /\ UNCHANGED <<launched, page, error, mediaType, file, manifest>>
    /\ UNCHANGED fnVars
    /\ UNCHANGED closeVars

\* The fallback writer emits 'error': its handler calls
\* fsPromises.unlink(filePath) without awaiting it and rejects at once; the
\* file is still on disk ("unlinking") while the rejection travels to the
\* caller.
FallbackWriteError(r) ==
    /\ pc[r] = "FallbackWrite"
    /\ file' = [file EXCEPT ![r].fallback = "unlinking"]
    /\ thrown' = [thrown EXCEPT ![r] = "FallbackFailure"]
    /\ Finally(r)
    /\ UNCHANGED <<launched, page, error, mediaType, manifest>>
    /\ UNCHANGED fnVars
    /\ UNCHANGED closeVars

\* The fallback's response stream errors or stalls after the headers: as in
\* the primary fetch, nothing settles the awaited promise.
FallbackWriteStall(r) ==
    /\ pc[r] = "FallbackWrite"
    /\ pc' = [pc EXCEPT ![r] = "FallbackWriteStalled"]
    /\ UNCHANGED <<poolVars, browserInstance, page, releases>>
    /\ UNCHANGED dataVars
    /\ UNCHANGED fnVars
    /\ UNCHANGED closeVars
    /\ UNCHANGED releasedWhileClosing

\* The unlink issued by the fallback writer's 'error' handler completes.
UnlinkDone(r) ==
    /\ file[r].fallback = "unlinking"
    /\ file' = [file EXCEPT ![r].fallback = "absent"]
    /\ UNCHANGED <<poolVars, pc, browserInstance, page, releases>>
    /\ UNCHANGED <<error, mediaType, manifest, thrown>>
    /\ UNCHANGED fnVars
    /\ UNCHANGED closeVars
    /\ UNCHANGED releasedWhileClosing

\* The fallback writer emits 'finish': the orchestrator returns the fallback
\* result with its note replaced by
\* `Primary download failed: ${error.message}. Serving fallback content.`
\* (note holds the kind of the error the note quotes).
FallbackWriteFinish(r) ==
    /\ pc[r] = "FallbackWrite"
    /\ file' = [file EXCEPT ![r].fallback = "complete"]
    /\ manifest' = [manifest EXCEPT ![r] = FallbackManifest(r)]
    /\ Finally(r)
    /\ UNCHANGED <<launched, page, error, mediaType, thrown>>
    /\ UNCHANGED fnVars
    /\ UNCHANGED closeVars

\* ---------------------------------------------------------------- cleanup
\* page.close() resolves; the handle is released and the call completes with
\* the manifest or error decided before.
ClosePageOk(r) ==
    /\ pc[r] = "Closing"
    /\ page' = [page EXCEPT ![r] = "closed"]
    /\ ReleaseAndEnd(r)
    /\ UNCHANGED launched
    /\ UNCHANGED dataVars
    /\ UNCHANGED fnVars
    /\ UNCHANGED closeVars

\* page.close() rejects (target closed, connection lost): the finally block
\* throws, the rest of it is skipped and the rejection replaces the pending
\* return value or error.
ClosePageFail(r) ==
    /\ pc[r] = "Closing"
    /\ pc' = [pc EXCEPT ![r] = "Done"]
    /\ manifest' = [manifest EXCEPT ![r] = NoManifest]
    /\ thrown' = [thrown EXCEPT ![r] = "PageCloseFailure"]
    /\ UNCHANGED <<poolVars, browserInstance, page, releases>>
    /\ UNCHANGED <<error, mediaType, file>>
    /\ UNCHANGED fnVars
    /\ UNCHANGED closeVars
    /\ UNCHANGED releasedWhileClosing

MediaKinds == {"image", "video"}

\* One step of request r's call.
Step(r) ==
    \/ Arrive(r)
    \/ LaunchOk(r)
    \/ LaunchFail(r)
    \/ NewPageOk(r)
    \/ NewPageFail(r)
    \/ GotoOk(r)
    \/ GotoFail(r)
    \/ MarkerFound(r)
    \/ MarkerTimeout(r)
    \/ DismissDone(r)
    \/ \E kind \in MediaKinds : EvaluateFound(r, kind)
    \/ EvaluateEmpty(r)
    \/ EvaluateThrow(r)
    \/ FetchOk(r)
    \/ FetchFail(r)
    \/ WriteError(r)
    \/ WriteStall(r)
    \/ WriteFinish(r)
    \/ FallbackFetchOk(r)
    \/ FallbackFetchFail(r)
    \/ FallbackWriteError(r)
    \/ FallbackWriteStall(r)
    \/ FallbackWriteFinish(r)
    \/ ClosePageOk(r)
    \/ ClosePageFail(r)

Next == \E r \in Requests : Step(r) \/ UnlinkDone(r)

Spec == Init /\ [][Next]_vars

\* ------------------------------------------------ the pool's exported API
\* getBrowser and releaseBrowser are exported: PoolSpec lets each client call
\* getBrowser once and then call releaseBrowser on the handle it was given up
\* to MaxReleases times, which the orchestrators above never do.
ApiRelease(r) ==
    /\ pc[r] \in {"NewPage", "Done"}
    /\ browserInstance[r] # Undefined
    /\ releases[r] < MaxReleases
    /\ ReleaseAndEnd(r)
    /\ UNCHANGED <<launched, page>>
    /\ UNCHANGED dataVars
    /\ UNCHANGED fnVars
    /\ UNCHANGED closeVars

PoolNext ==
    \E r \in Requests :
        \/ Arrive(r)
        \/ LaunchOk(r)
        \/ LaunchFail(r)
        \/ ApiRelease(r)

PoolSpec == Init /\ [][PoolNext]_vars

\* The clients the orchestrators are: each passes the handle it was given to
\* releaseBrowser at most once (once in its finally block, or never when
\* page.close() rejects first).
ApiReleaseOnce(r) ==
    /\ releases[r] = 0
    /\ ApiRelease(r)

OncePoolNext ==
    \E r \in Requests :
        \/ Arrive(r)
        \/ LaunchOk(r)
        \/ LaunchFail(r)
        \/ ApiReleaseOnce(r)

OncePoolSpec == Init /\ [][OncePoolNext]_vars

\* ------------------------------------------------------ derived notions
\* Request r holds a checked-out handle: getBrowser gave it one and it has
\* not passed it to releaseBrowser.
Holds(r) == browserInstance[r] # Undefined /\ releases[r] = 0

CheckedOut == {r \in Requests : Holds(r)}
UnderConstruction == {r \in Requests : pc[r] = "Launching"}

\* Number of positions of the idle pool that hold handle h.
IdleCount(h) == Cardinality({i \in 1..Len(browserPool) : browserPool[i] = h})

\* The orchestrator states of the specification's state machine.
FallingBack(r) ==
    pc[r] \in {"FallbackFetch", "FallbackWrite", "FallbackWriteStalled"}
PrimaryFailed(r) == error[r] # "none"
Returned(r) == pc[r] = "Done" /\ thrown[r] = "none"
Threw(r) == pc[r] = "Done" /\ thrown[r] # "none"

\* ================================================================ claims

\* C1: the number of browser handles that exist at the same time (idle in
\* browserPool, being launched inside getBrowser, or checked out to a
\* request) never exceeds MAX_BROWSERS.
C1_HandlesWithinCapacity ==
    Len(browserPool) + Cardinality(UnderConstruction) + Cardinality(CheckedOut)
        <= MAX_BROWSERS

\* C2: a getBrowser call made while the idle pool is empty and MAX_BROWSERS
\* handles have been constructed, all of them checked out, launches nothing:
\* the caller is appended to the waiter queue and stays suspended.
C2_ExhaustedPoolEnqueues ==
    [][\A r \in Requests :
          ( /\ pc[r] = "Queued"
            /\ pc'[r] # "Queued"
            /\ browserPool = <<>>
            /\ Cardinality(launched) = MAX_BROWSERS
            /\ Cardinality(CheckedOut) = MAX_BROWSERS )
          => ( /\ pc'[r] = "Waiting"
               /\ browserQueue' = Append(browserQueue, r)
               /\ launched' = launched )]_vars

\* C3: with capacity 2, once three requests have called getBrowser and none of
\* them has released or finished, exactly two of them have a handle (or are
\* launching it) and the third is suspended in the waiter queue.
C3_ThirdRequestQueues ==
    LET active == {r \in Requests :
                      /\ pc[r] \notin {"Queued", "Done"}
                      /\ releases[r] = 0
                      /\ error[r] # "AcquisitionFailure"}
    IN  Cardinality(active) >= 3
            => /\ Cardinality({r \in active : pc[r] # "Waiting"}) = MAX_BROWSERS
               /\ \A r \in active : pc[r] = "Waiting"
                      => \E i \in 1..Len(browserQueue) : browserQueue[i] = r

\* C4: a request that is falling back, or is in any later state, no longer
\* holds its checked-out handle.
C4_NoHandleWhileFallingBack ==
    \A r \in Requests :
        (FallingBack(r) \/ (PrimaryFailed(r) /\ pc[r] \in {"Closing", "Done"}))
            => ~Holds(r)

\* C5: a request that getBrowser gave a handle has, when it completes on any
\* path, passed that handle to releaseBrowser exactly once.
C5_ReleasedExactlyOnce ==
    \A r \in Requests :
        (pc[r] = "Done" /\ browserInstance[r] # Undefined) => releases[r] = 1

\* C6: every releaseBrowser call with a real handle either removes the head
\* waiter and hands it the handle, leaving the idle pool as it was, or, when
\* nobody waits, pushes the handle onto the idle pool: exactly one of the two.
C6_ReleaseHandsOverOrIdles ==
    [][\A r \in Requests :
          releases'[r] # releases[r] =>
              LET h == browserInstance[r]
                  toWaiter ==
                      /\ browserQueue # <<>>
                      /\ browserQueue' = Tail(browserQueue)
                      /\ browserInstance'[Head(browserQueue)] = h
                      /\ pc'[Head(browserQueue)] = "NewPage"
                  toIdle ==
                      /\ browserPool' = Append(browserPool, h)
                      /\ browserQueue' = browserQueue
              IN  /\ h # Undefined
                  /\ releases'[r] = releases[r] + 1
                  /\ IF browserQueue # <<>>
                     THEN toWaiter /\ browserPool' = browserPool
                     ELSE toIdle /\ \A q \in Requests :
                                        browserInstance'[q] = browserInstance[q]
      ]_vars

\* C6 witness: a client has released its handle and the handle is idle.
C6_Witness ==
    \E r \in Requests :
        /\ releases[r] = 1
        /\ browserPool # <<>>
        /\ browserPool[Len(browserPool)] = browserInstance[r]

\* C7: releasing the same checked-out handle twice does not duplicate it: no
\* handle is twice in the idle pool, none is both idle and held, and none is
\* held by two requests.
C7_DoubleReleaseDoesNotDuplicate ==
    \A h \in launched :
        IdleCount(h)
          + Cardinality({r \in Requests :
                            /\ browserInstance[r] = h
                            /\ pc[r] = "NewPage"}) <= 1

\* C8: when every request releases at most once, each constructed handle is
\* in exactly one place: idle in the pool (once), or checked out to exactly one
\* request; a browser still being launched is in neither.
C8_HandleInOnePlace ==
    /\ \A h \in launched :
          IdleCount(h) + Cardinality({r \in Requests :
                                         Holds(r) /\ browserInstance[r] = h}) = 1
    /\ \A r \in UnderConstruction :
          /\ r \notin launched
          /\ browserInstance[r] = Undefined
    /\ \A i \in 1..Len(browserPool) : browserPool[i] \in launched
    /\ \A i, j \in 1..Len(browserQueue) :
          i # j => browserQueue[i] # browserQueue[j]

\* C8 witness: a handle launched by one request has been released to the
\* idle pool and handed out again to another request, while a further
\* handle is checked out elsewhere.
C8_Witness ==
    \E r, q \in Requests :
        /\ r # q
        /\ releases[r] = 1
        /\ Holds(q)
        /\ browserInstance[q] = browserInstance[r]
        /\ \E p \in Requests : Holds(p) /\ browserInstance[p] # browserInstance[q]

FairOncePoolSpec ==
    /\ OncePoolSpec
    /\ \A r \in Requests : WF_vars(LaunchOk(r) \/ LaunchFail(r))
    /\ \A r \in Requests : WF_vars(ApiReleaseOnce(r))

C10_FallbackRecovers ==
    \A r \in Requests :
        ( /\ pc[r] = "Done"
          /\ error[r] \in {"AcquisitionFailure", "NavigationFailure",
                           "ExtractionEmpty", "FetchFailure"}
          /\ file[r].fallback = "complete" )
        => (manifest[r].success /\ thrown[r] = "none")

\* ------------------------------------------------------------ C11 .. C20
\* downloadFallbackContent's catch rethrows
\* `Fallback download failed: ${error.message}`: the reason of fallbackError.
FallbackErrorMessage == "FallbackDownloadFailed"

\* The reasons the message of the orchestrator's final error quotes:
\* `Failed to download content from Instagram or provide fallback:
\* ${error.message}` interpolates the primary error only; fallbackError is
\* logged and dropped.
FailureMessage(primaryMessage, fallbackMessage) == {primaryMessage}

\* The reasons quoted by the message of the error request r's call rejects
\* with.
ThrownMessage(r) ==
    CASE thrown[r] = "FallbackFailure" ->
             FailureMessage(error[r], FallbackErrorMessage)
      [] thrown[r] = "PageCloseFailure" -> {"PageCloseFailure"}
      [] OTHER -> {}

\* C11: when the primary path fails and the fallback fails too, the call
\* throws one error whose message contains both the primary failure reason
\* and the fallback failure reason, and no manifest is returned.
C11_FailureNamesBothReasons ==
    \A r \in Requests :
        (pc[r] = "Done" /\ thrown[r] = "FallbackFailure") =>
            /\ manifest[r] = NoManifest
            /\ error[r] \in ThrownMessage(r)
            /\ FallbackErrorMessage \in ThrownMessage(r)

\* A manifest has been built for request r (returned, or pending while the
\* finally block runs).
HasManifest(r) == manifest[r] # NoManifest

\* C12: a manifest has a note exactly when the file it names was produced
\* by the fallback provider; a manifest of a primary path that succeeded
\* has success = TRUE, the kind of mediaData[0] and no note; every manifest
\* built after a primary failure has a note.
C12_NoteMarksSubstitute ==
    \A r \in Requests :
        HasManifest(r) =>
            /\ manifest[r].note # "none" <=> manifest[r].source = "fallback"
            /\ manifest[r].source = "fallback" <=>
                   file[r].fallback = "complete"
            /\ ~PrimaryFailed(r) =>
                   /\ manifest[r].success
                   /\ manifest[r].contentType = mediaType[r]
                   /\ manifest[r].note = "none"
                   /\ file[r].primary = "complete"
            /\ PrimaryFailed(r) => manifest[r].note # "none"

\* One call returned a primary video manifest, another a substitute.
C12_Witness ==
    \E r1, r2 \in Requests :
        /\ Returned(r1) /\ ~PrimaryFailed(r1)
        /\ manifest[r1].contentType = "video"
        /\ FallbackMediaType(ContentType(r1)) = "image"
        /\ Returned(r2) /\ PrimaryFailed(r2)
        /\ manifest[r2].source = "fallback"

\* C13: when the primary path failed with error E and the fallback
\* succeeded, the manifest has success = TRUE and its note quotes E.
C13_NoteQuotesPrimaryError ==
    \A r \in Requests :
        (HasManifest(r) /\ PrimaryFailed(r)) =>
            /\ manifest[r].success
            /\ manifest[r].note = error[r]
            /\ manifest[r].note # FallbackResult(ContentType(r)).note

\* A call returned a substitute after its navigation failed.
C13_Witness ==
    \E r \in Requests :
        /\ Returned(r)
        /\ error[r] = "NavigationFailure"
        /\ manifest[r].note = "NavigationFailure"

\* Request r's call has opened its tab and begun navigating, and has not
\* completed.
InFlight(r) == page[r] # "none" /\ pc[r] # "Done"

\* C14: every request that has begun navigating reaches Ready or Failed: it
\* is never left in Navigating, Extracting, Fetching or Falling Back with no
\* step that could still complete its call, also when the response stream
\* errors or stalls after the headers arrived.
C14_NoRequestIsStuck ==
    \A r \in Requests : InFlight(r) => ENABLED Step(r)

\* The orchestrator state request r is in. Opening the tab belongs to
\* Navigating; the finally block belongs to the state whose return or throw
\* it completes; a finished call is Ready when it returned a manifest and
\* Failed when it threw.
OrchState(r) ==
    CASE pc[r] = "Queued" -> "Queued"
      [] pc[r] \in {"Launching", "Waiting"} -> "Acquiring"
      [] pc[r] \in {"NewPage", "Navigating", "WaitMarker", "Dismiss"} ->
             "Navigating"
      [] pc[r] = "Extracting" -> "Extracting"
      [] pc[r] \in {"Fetching", "Writing", "WriteStalled"} -> "Fetching"
      [] FallingBack(r) -> "FallingBack"
      [] pc[r] = "Closing" ->
             IF PrimaryFailed(r) THEN "FallingBack" ELSE "Fetching"
      [] pc[r] = "Done" /\ thrown[r] = "none" -> "Ready"
      [] OTHER -> "Failed"

\* The transitions of the orchestrator state machine. A handle popped from
\* the idle pool is obtained within the arrival step, so Queued may be
\* followed by Navigating at once.
SpecifiedTransitions ==
    { <<"Queued", "Acquiring">>, <<"Queued", "Navigating">>,
      <<"Acquiring", "Navigating">>, <<"Navigating", "Extracting">>,
      <<"Extracting", "Fetching">>, <<"Fetching", "Ready">>,
      <<"Navigating", "FallingBack">>, <<"Extracting", "FallingBack">>,
      <<"Fetching", "FallingBack">>, <<"FallingBack", "Ready">>,
      <<"FallingBack", "Failed">> }

\* C15: every request's state sequence is a path of the state machine:
\* Falling Back is entered only from Navigating, Extracting or Fetching,
\* Ready only from Fetching or Falling Back, Failed only from Falling Back,
\* and Fetching is entered only with at least one candidate.
C15_OnlySpecifiedTransitions ==
    [][\A r \in Requests :
           OrchState(r)' # OrchState(r) =>
               /\ <<OrchState(r), OrchState(r)'>> \in SpecifiedTransitions
               /\ OrchState(r)' = "Fetching" => mediaType'[r] # "none"]_vars

\* The part of C15 about Failed alone: a call that has not failed yet fails
\* only out of Falling Back.
C15_FailedOnlyFromFallingBack ==
    [][\A r \in Requests :
           (OrchState(r)' = "Failed" /\ OrchState(r) # "Failed") =>
               OrchState(r) = "FallingBack"]_vars

\* C16: a destination file created by an attempt that failed has been
\* deleted by the time the fallback starts (primary file) or the failure is
\* reported to the caller (fallback file); after a request ended no file of
\* a failed attempt of it is left.
C16_FailedAttemptLeavesNoFile ==
    \A r \in Requests :
        /\ PrimaryFailed(r) => file[r].primary = "absent"
        /\ (pc[r] = "Done" /\ thrown[r] = "FallbackFailure") =>
               file[r].fallback = "absent"

\* The state of the file a manifest's localPath names.
ManifestFile(r) ==
    IF manifest[r].source = "primary" THEN file[r].primary
    ELSE file[r].fallback

\* C17: whenever a manifest with success = TRUE exists, primary or
\* fallback, the file it names exists and is completely written (the
\* writer's 'finish' came before the manifest was built); no manifest names
\* a partial or deleted file.
C17_ManifestFileIsComplete ==
    \A r \in Requests :
        (HasManifest(r) /\ manifest[r].success) =>
            ManifestFile(r) = "complete"

\* A call returned a primary manifest and another a fallback manifest.
C17_Witness ==
    \E r1, r2 \in Requests :
        /\ Returned(r1) /\ manifest[r1].success
        /\ manifest[r1].source = "primary" /\ file[r1].primary = "complete"
        /\ Returned(r2) /\ manifest[r2].success
        /\ manifest[r2].source = "fallback" /\ file[r2].fallback = "complete"

\* ---------------------------------------------------------- formatFileSize
\* The largest file size, in bytes, that FormatSpec draws.
MaxBytes == 2100

\* const k = 1024
k == 1024

\* A byte count is written in base k, most significant digit first and with
\* no leading zero, so that counts of 1024^3 and more, which a 32-bit
\* integer cannot hold, are drawn too: 1024 is <<1, 0>>, 1024^4 is
\* <<1, 0, 0, 0, 0>>.
RECURSIVE Digits(_)
Digits(n) == IF n < k THEN <<n>> ELSE Append(Digits(n \div k), n % k)

\* The byte counts just below, at and just above 1024^2, 1024^3 and 1024^4:
\* 1024^n - d is n digits, 1023 ... 1023 (1024 - d).
BoundaryCounts ==
    UNION { { [j \in 1 .. n |-> IF j < n THEN k - 1 ELSE k - d] : d \in 1 .. 6 }
            \cup { [j \in 1 .. n + 1 |-> IF j = 1 THEN 1 ELSE 0],
                    [j \in 1 .. n + 1 |-> IF j \in {1, n + 1} THEN 1 ELSE 0] } :
            n \in 2 .. 4 }

ByteCounts == {Digits(n) : n \in 0 .. MaxBytes} \cup BoundaryCounts

\* const sizes = ['Bytes', 'KB', 'MB', 'GB']
sizes == <<"Bytes", "KB", "MB", "GB">>

\* i = Math.floor(Math.log(bytes) / Math.log(k)), for bytes >= 1: one less
\* than the number of base-k digits. (The quotient of the two logarithms,
\* in double precision, has this floor for every count drawn here.)
UnitIndex(bytes) == Len(bytes) - 1

RECURSIVE Times100(_)
\* 100 times the fraction 0.d1 d2 ... (base k) of the digits ds: its integer
\* part (carry) and the first base-k digit of what follows the point (top).
Times100(ds) ==
    IF ds = <<>> THEN [carry |-> 0, top |-> 0]
    ELSE LET x == 100 * Head(ds) + Times100(Tail(ds)).carry
         IN  [carry |-> x \div k, top |-> x % k]

\* (bytes / Math.pow(k, i)).toFixed(2), as a number of hundredths: the
\* quotient by a power of two is exact and toFixed rounds it to the nearest
\* hundredth, a tie going up. parseFloat only drops trailing zeros.
Hundredths(bytes, i) ==
    LET whole == SubSeq(bytes, 1, Len(bytes) - i)
        fraction == Times100(SubSeq(bytes, Len(bytes) - i + 1, Len(bytes)))
    IN  100 * whole[1] + fraction.carry
            + (IF 2 * fraction.top >= k THEN 1 ELSE 0)

\* formatFileSize(bytes): the label `${value} ${unit}`, value in hundredths.
\* sizes[i] is undefined from 1024^4 bytes on.
formatFileSize(bytes) ==
    IF bytes = NoBytes THEN [value |-> 0, unit |-> "Bytes"]
    ELSE LET i == UnitIndex(bytes)
         IN  [value |-> Hundredths(bytes, i),
              unit |-> IF i < Len(sizes) THEN sizes[i + 1] ELSE "undefined"]

\* A written file of any size in ByteCounts is about to be described.
FormatInit ==
    /\ OrchInit
    /\ statSize \in ByteCounts
    /\ sizeLabel = NoLabel
    /\ dom = <<>>
    /\ domPlatform = "instagram"
    /\ mediaData = <<>>
    /\ extractPc = "idle"
    /\ written = <<>>
    /\ route = NoRoute
    /\ CloseIdle

\* `const stats = await fsPromises.stat(filePath)` and the manifest's
\* `size: formatFileSize(stats.size)`: the label is all the manifest keeps.
StatAndFormat ==
    /\ sizeLabel = NoLabel
    /\ sizeLabel' = formatFileSize(statSize)
    /\ UNCHANGED <<poolVars, pc, browserInstance, page, releases>>
    /\ UNCHANGED dataVars
    /\ UNCHANGED <<statSize, dom, domPlatform, mediaData, extractPc>>
    /\ UNCHANGED <<written, route>>
    /\ UNCHANGED <<closeVars, releasedWhileClosing>>

FormatSpec == FormatInit /\ [][StatAndFormat]_vars

\* C18: a primary success manifest records the size of its file in bytes
\* exactly: the raw byte count can be recovered from what the manifest
\* holds, not only a rounded label.
C18_ByteCountRecoverable ==
    sizeLabel # NoLabel =>
        \A bytes \in ByteCounts :
            formatFileSize(bytes) = sizeLabel => bytes = statSize

\* ------------------------------------------------------ in-page extractor
\* URLs are sequences of the substrings the code looks at; "?" starts the
\* query. UrlA, UrlAq1 and UrlAq2 differ only in the query.
UrlA == <<"https://", "scontent", ".", "fbcdn.net", "/a", ".jpg">>
UrlAq1 == UrlA \o <<"?", "w=1">>
UrlAq2 == UrlA \o <<"?", "w=2">>
UrlB == <<"https://", "scontent", ".", "fbcdn.net", "/b", ".mp4">>
UrlBq == UrlB \o <<"?", "w=1">>
UrlC == <<"https://", "example.com", "/c", ".jpg">>
\* A URL on a foreign host whose path names both platforms' domains.
UrlD == <<"https://", "example.com", "/", "instagram.com", "/",
          "facebook.com", "/d", ".jpg">>

\* An absent attribute or property (undefined, null, '').
NoUrl == <<>>

\* <<naturalWidth, naturalHeight>> of the images drawn.
Dimensions == {<<1080, 150>>, <<1080, 1080>>}

\* Where an element sits. On Instagram "post" is inside <article> inside
\* <main> and "page" inside <main> only; on Facebook "post" is inside
\* div[data-visualcompletion="media-vc"], "page" a child of
\* div[data-imgperflog] and "link" inside a[href*="/videos/"] or
\* a[href*="/photos/"]; "none" is none of these.
Containers == {"post", "page", "link", "none"}

Imgs ==
    { [tag |-> "img", ctx |-> c, srcset |-> TRUE, src |-> u,
       content |-> NoUrl, property |-> "none",
       naturalWidth |-> d[1], naturalHeight |-> d[2]] :
          c \in Containers, u \in {UrlA, UrlAq1, UrlC}, d \in Dimensions }
    \cup
    { [tag |-> "img", ctx |-> "post", srcset |-> FALSE, src |-> u,
       content |-> NoUrl, property |-> "none",
       naturalWidth |-> 1080, naturalHeight |-> 1080] :
          u \in {UrlA, NoUrl} }
    \cup
    { [tag |-> "img", ctx |-> "post", srcset |-> TRUE, src |-> u,
       content |-> NoUrl, property |-> "none",
       naturalWidth |-> 1080, naturalHeight |-> 1080] :
          u \in {NoUrl, UrlD} }

Videos ==
    { [tag |-> "video", ctx |-> c, srcset |-> FALSE, src |-> u,
       content |-> NoUrl, property |-> "none",
       naturalWidth |-> 0, naturalHeight |-> 0] :
          c \in {"post", "page", "none"}, u \in {UrlB, UrlBq, UrlC} }

Metas ==
    { [tag |-> "meta", ctx |-> "none", srcset |-> FALSE, src |-> NoUrl,
       content |-> u, property |-> p,
       naturalWidth |-> 0, naturalHeight |-> 0] :
          p \in {"og:image", "og:video"}, u \in {UrlA, UrlAq2, UrlB, UrlC} }

Elements == Imgs \cup Videos \cup Metas

\* The most elements a drawn DOM has.
MaxElements == 2

Doms == UNION { [1 .. n -> Elements] : n \in 0 .. MaxElements }

\* String.prototype.includes
Includes(url, part) == \E i \in 1 .. Len(url) : url[i] = part

RECURSIVE QueryStart(_, _)
\* The index of the first "?" of url at or after i, Len(url) + 1 if none.
QueryStart(url, i) ==
    IF i > Len(url) \/ url[i] = "?" THEN i ELSE QueryStart(url, i + 1)

\* src.split('?')[0]
StripQuery(url) == SubSeq(url, 1, QueryStart(url, 1) - 1)

\* The selectors arrays, in order.
Selectors(platform) ==
    IF platform = "instagram"
    THEN <<"article img[srcset]", "article video[src]",
           "main img[src*=scontent]", "main video[src*=scontent]",
           "meta[property=og:image]", "meta[property=og:video]">>
    ELSE <<"video[src*=.mp4]", "img[src*=.jpg]",
           "div[data-imgperflog] > img", "media-vc img", "media-vc video",
           "a[href*=/videos/] img", "a[href*=/photos/] img",
           "meta[property=og:image]", "meta[property=og:video]">>

\* Element.matches(selector). An attribute selector tests the whole
\* attribute value, query included.
Matches(selector, el) ==
    CASE selector = "article img[srcset]" ->
             el.tag = "img" /\ el.ctx = "post" /\ el.srcset
      [] selector = "article video[src]" ->
             el.tag = "video" /\ el.ctx = "post" /\ el.src # NoUrl
      [] selector = "main img[src*=scontent]" ->
             /\ el.tag = "img" /\ el.ctx \in {"post", "page"}
             /\ Includes(el.src, "scontent")
      [] selector = "main video[src*=scontent]" ->
             /\ el.tag = "video" /\ el.ctx \in {"post", "page"}
             /\ Includes(el.src, "scontent")
      [] selector = "video[src*=.mp4]" ->
             el.tag = "video" /\ Includes(el.src, ".mp4")
      [] selector = "img[src*=.jpg]" ->
             el.tag = "img" /\ Includes(el.src, ".jpg")
      [] selector = "div[data-imgperflog] > img" ->
             el.tag = "img" /\ el.ctx = "page"
      [] selector = "media-vc img" -> el.tag = "img" /\ el.ctx = "post"
      [] selector = "media-vc video" -> el.tag = "video" /\ el.ctx = "post"
      [] selector \in {"a[href*=/videos/] img", "a[href*=/photos/] img"} ->
             el.tag = "img" /\ el.ctx = "link"
      [] selector = "meta[property=og:image]" ->
             el.tag = "meta" /\ el.property = "og:image"
      [] selector = "meta[property=og:video]" ->
             el.tag = "meta" /\ el.property = "og:video"
      [] OTHER -> FALSE

\* let src = el.src || el.getAttribute('src') || el.content
SrcOf(el) == IF el.src # NoUrl THEN el.src ELSE el.content

\* src.includes('scontent') || src.includes('instagram.com'), and on
\* Facebook src.includes('fbcdn.net') || src.includes('facebook.com').
HostAccepted(platform, src) ==
    IF platform = "instagram"
    THEN Includes(src, "scontent") \/ Includes(src, "instagram.com")
    ELSE Includes(src, "fbcdn.net") \/ Includes(src, "facebook.com")

\* isThumbnail: only Instagram's extractor has the size test.
isThumbnail(platform, el) ==
    /\ platform = "instagram"
    /\ el.tag = "img"
    /\ (el.naturalWidth < 300 \/ el.naturalHeight < 300)

\* type: 'video' for a <video> or an og:video meta, else 'image'.
TypeOf(el) ==
    IF el.tag = "video" \/ el.property = "og:video" THEN "video" ELSE "image"

\* The extractor before any element is visited.
NoMedia == [media |-> <<>>, foundSources |-> {}]

\* A visit that pushes without consulting foundSources.
VisitWithoutDedup(acc, platform, el) ==
    LET src == StripQuery(SrcOf(el))
    IN  IF /\ SrcOf(el) # NoUrl
           /\ HostAccepted(platform, src)
           /\ ~isThumbnail(platform, el)
        THEN [media |-> Append(acc.media, [url |-> src, type |-> TypeOf(el)]),
              foundSources |-> acc.foundSources \cup {src}]
        ELSE acc

\* A visit without the thumbnail test.
VisitKeepsThumbnails(acc, platform, el) ==
    LET src == StripQuery(SrcOf(el))
    IN  IF /\ SrcOf(el) # NoUrl
           /\ HostAccepted(platform, src)
           /\ src \notin acc.foundSources
        THEN [media |-> Append(acc.media, [url |-> src, type |-> TypeOf(el)]),
              foundSources |-> acc.foundSources \cup {src}]
        ELSE acc

\* The body of the inner forEach for one matched element.
Visit(acc, platform, el) ==
    LET src == StripQuery(SrcOf(el))
    IN  IF /\ SrcOf(el) # NoUrl
           /\ HostAccepted(platform, src)
           /\ ~isThumbnail(platform, el)
           /\ src \notin acc.foundSources
        THEN [media |-> Append(acc.media, [url |-> src, type |-> TypeOf(el)]),
              foundSources |-> acc.foundSources \cup {src}]
        ELSE acc

RECURSIVE VisitMatchingBackwards(_, _, _, _, _)
\* A forEach that walks the matching elements from the last one of the
\* document to the first (i counts the elements already passed).
VisitMatchingBackwards(acc, platform, selector, d, i) ==
    IF i > Len(d) THEN acc
    ELSE VisitMatchingBackwards(
             IF Matches(selector, d[Len(d) + 1 - i])
             THEN Visit(acc, platform, d[Len(d) + 1 - i]) ELSE acc,
             platform, selector, d, i + 1)

RECURSIVE VisitMatching(_, _, _, _, _)
\* document.querySelectorAll(selector).forEach(...): the elements of d from
\* index i on that match, in document order.
VisitMatching(acc, platform, selector, d, i) ==
    IF i > Len(d) THEN acc
    ELSE VisitMatching(IF Matches(selector, d[i])
                       THEN Visit(acc, platform, d[i]) ELSE acc,
                       platform, selector, d, i + 1)

RECURSIVE VisitSelectors(_, _, _, _)
\* selectors.forEach(...), from selector s on.
VisitSelectors(acc, platform, d, s) ==
    IF s > Len(Selectors(platform)) THEN acc
    ELSE VisitSelectors(
             VisitMatching(acc, platform, Selectors(platform)[s], d, 1),
             platform, d, s + 1)

\* What the function passed to page.evaluate returns for document d.
extractMedia(platform, d) == VisitSelectors(NoMedia, platform, d, 1).media

\* A page of either platform has rendered any of the DOMs and page.evaluate
\* is about to run.
ExtractInit ==
    /\ OrchInit
    /\ statSize = NoBytes
    /\ sizeLabel = NoLabel
    /\ dom \in Doms
    /\ domPlatform \in {"instagram", "facebook"}
    /\ mediaData = <<>>
    /\ extractPc = "Extracting"
    /\ written = <<>>
    /\ route = NoRoute
    /\ CloseIdle

\* const mediaData = await page.evaluate(...)
Evaluate ==
    /\ extractPc = "Extracting"
    /\ mediaData' = extractMedia(domPlatform, dom)
    /\ extractPc' = "Evaluated"
    /\ UNCHANGED <<poolVars, pc, browserInstance, page, releases>>
    /\ UNCHANGED dataVars
    /\ UNCHANGED <<statSize, sizeLabel, dom, domPlatform>>
    /\ UNCHANGED <<written, route>>
    /\ UNCHANGED <<closeVars, releasedWhileClosing>>

\* if (mediaData.length === 0) throw new Error('No media found ...'): the
\* catch block falls back; otherwise mediaData[0] is fetched.
CheckMedia ==
    /\ extractPc = "Evaluated"
    /\ extractPc' = IF Len(mediaData) = 0 THEN "FallingBack" ELSE "Fetching"
    /\ UNCHANGED <<poolVars, pc, browserInstance, page, releases>>
    /\ UNCHANGED dataVars
    /\ UNCHANGED <<statSize, sizeLabel, dom, domPlatform, mediaData>>
    /\ UNCHANGED <<written, route>>
    /\ UNCHANGED <<closeVars, releasedWhileClosing>>

ExtractNext == Evaluate \/ CheckMedia

ExtractSpec == ExtractInit /\ [][ExtractNext]_vars

\* Element el of a page of the platform is matched by some selector.
Matched(platform, el) ==
    \E s \in 1 .. Len(Selectors(platform)) :
        Matches(Selectors(platform)[s], el)

\* Element el yields no candidate on its own: it has no source, or its
\* source is on a foreign host, or it is a thumbnail.
FilteredOut(platform, el) ==
    \/ SrcOf(el) = NoUrl
    \/ ~HostAccepted(platform, StripQuery(SrcOf(el)))
    \/ isThumbnail(platform, el)

\* page.evaluate has returned.
Extracted == extractPc \in {"Evaluated", "FallingBack", "Fetching"}

\* C19: for every DOM in which no element matches a selector or every
\* matched element is filtered out, the extractor returns the empty list
\* (it does not throw), and the orchestrator treats the empty list as an
\* extraction failure and falls back.
C19_NothingFoundFallsBack ==
    /\ (Extracted /\ \A i \in 1 .. Len(dom) :
                         \/ ~Matched(domPlatform, dom[i])
                         \/ FilteredOut(domPlatform, dom[i]))
           => mediaData = <<>> /\ extractPc # "Fetching"
    /\ extractPc = "FallingBack" => mediaData = <<>>
    /\ extractPc = "Fetching" => mediaData # <<>>

\* The orchestrator fell back on a page whose two elements were matched and
\* filtered out, one as a thumbnail and one for its host.
C19_Witness ==
    /\ extractPc = "FallingBack"
    /\ Len(dom) = 2
    /\ \A i \in 1 .. 2 : Matched(domPlatform, dom[i])
    /\ isThumbnail(domPlatform, dom[1])
    /\ ~HostAccepted(domPlatform, StripQuery(SrcOf(dom[2])))

\* C20: the extractor's result holds no two candidates with the same
\* normalized URL (everything from the first '?' on removed), also when the
\* elements were matched by different selectors.
C20_NoDuplicateCandidates ==
    Extracted =>
        \A i, j \in 1 .. Len(mediaData) :
            /\ StripQuery(mediaData[i].url) = mediaData[i].url
            /\ i # j => mediaData[i].url # mediaData[j].url

\* Two accepted elements, matched by different selectors, whose sources
\* differ only in the query, gave one candidate.
C20_Witness ==
    /\ Extracted
    /\ Len(dom) = 2
    /\ dom[1].tag = "img" /\ dom[2].tag = "meta"
    /\ \A i \in 1 .. 2 : /\ Matched(domPlatform, dom[i])
                         /\ ~FilteredOut(domPlatform, dom[i])
    /\ SrcOf(dom[1]) # SrcOf(dom[2])
    /\ StripQuery(SrcOf(dom[1])) = StripQuery(SrcOf(dom[2]))
    /\ Len(mediaData) = 1

\* Element i of dom is matched by a selector and passes every filter.
Accepted(i) ==
    /\ Matched(domPlatform, dom[i])
    /\ ~FilteredOut(domPlatform, dom[i])

\* The URL under which element i of dom is offered as a candidate.
CandidateUrl(i) == StripQuery(SrcOf(dom[i]))

\* The position in mediaData of the candidate with this URL (0 if none).
PositionOf(url) ==
    IF \E n \in 1 .. Len(mediaData) : mediaData[n].url = url
    THEN CHOOSE n \in 1 .. Len(mediaData) : mediaData[n].url = url
    ELSE 0

\* The first selector of the platform's list that matches element i.
FirstSelector(i) ==
    CHOOSE s \in 1 .. Len(Selectors(domPlatform)) :
        /\ Matches(Selectors(domPlatform)[s], dom[i])
        /\ \A t \in 1 .. s - 1 : ~Matches(Selectors(domPlatform)[t], dom[i])

\* Element p is visited before element q: under an earlier selector, or
\* under the same selector and earlier in the document.
VisitedBefore(p, q) ==
    \/ FirstSelector(p) < FirstSelector(q)
    \/ FirstSelector(p) = FirstSelector(q) /\ p < q

\* C21 as stated: the candidates are in DOM-encounter order: of two accepted
\* elements the one earlier in the document comes earlier in the result,
\* so mediaData[0] is the first accepted element of the document whichever
\* selector matched it.
C21_DocumentOrder ==
    Extracted =>
        \A p, q \in 1 .. Len(dom) :
            (p < q /\ Accepted(p) /\ Accepted(q)
                   /\ CandidateUrl(p) # CandidateUrl(q)) =>
                PositionOf(CandidateUrl(p)) < PositionOf(CandidateUrl(q))

\* C21, amended: the candidates are in selector order, and in document
\* order among the elements of one selector: of two accepted elements with
\* different URLs, the one visited first comes earlier in the result, and
\* every accepted element's URL is in the result.
C21_SelectorThenDocumentOrder ==
    Extracted =>
        /\ \A p \in 1 .. Len(dom) :
               Accepted(p) => PositionOf(CandidateUrl(p)) > 0
        /\ \A p, q \in 1 .. Len(dom) :
               (Accepted(p) /\ Accepted(q) /\ VisitedBefore(p, q)
                    /\ CandidateUrl(p) # CandidateUrl(q)
                    /\ \A o \in 1 .. Len(dom) :
                           (Accepted(o) /\ CandidateUrl(o) = CandidateUrl(q))
                               => VisitedBefore(p, o)) =>
                   PositionOf(CandidateUrl(p)) < PositionOf(CandidateUrl(q))

\* The later of two accepted elements of the document is the first
\* candidate, its selector coming first.
C21_Witness ==
    /\ Extracted
    /\ Len(dom) = 2
    /\ Accepted(1) /\ Accepted(2)
    /\ FirstSelector(2) < FirstSelector(1)
    /\ Len(mediaData) = 2
    /\ mediaData[1].url = CandidateUrl(2)

\* ------------------------------------------------------- closeAllBrowsers
\* The handles in a pool.
Idle(pool) == {pool[i] : i \in 1 .. Len(pool)}

RECURSIVE CloseLoop(_, _)
\* The while loop of closeAllBrowsers run from its test to its next await:
\* handles are popped off the top; one that is not connected is dropped, the
\* first connected one is the target whose close() is awaited. Without a
\* target the loop has ended on an empty pool.
CloseLoop(pool, dead) ==
    IF Len(pool) = 0 THEN [pool |-> pool, target |-> Undefined]
    ELSE LET browser == pool[Len(pool)]
             rest == SubSeq(pool, 1, Len(pool) - 1)
         IN  IF browser \in dead THEN CloseLoop(rest, dead)
             ELSE [pool |-> rest, target |-> browser]

\* The loop runs on from the current pool.
RunCloseLoop(dead) ==
    LET loop == CloseLoop(browserPool, dead)
    IN  /\ browserPool' = loop.pool
        /\ closeTarget' = loop.target
        /\ closeAllPc' = IF loop.target = Undefined
                         THEN "returned" ELSE "closing"

\* closeAllBrowsers is called (shutdown signal, or any importer).
CloseAllCall ==
    /\ closeAllPc = "idle"
    /\ idleAtCall' = Idle(browserPool)
    /\ RunCloseLoop(disconnected)
    /\ UNCHANGED <<browserQueue, launched, pc, browserInstance, page, releases>>
    /\ UNCHANGED <<dataVars, fnVars, disconnected, releasedWhileClosing>>

\* `await browser.close()` resolves and the loop goes on.
CloseDone ==
    /\ closeAllPc = "closing"
    /\ disconnected' = disconnected \cup {closeTarget}
    /\ RunCloseLoop(disconnected \cup {closeTarget})
    /\ UNCHANGED <<browserQueue, launched, pc, browserInstance, page, releases>>
    /\ UNCHANGED <<dataVars, fnVars, idleAtCall, releasedWhileClosing>>

\* `await browser.close()` rejects: closeAllBrowsers rejects, the handles
\* still in the pool stay there.
CloseFail ==
    /\ closeAllPc = "closing"
    /\ closeAllPc' = "threw"
    /\ closeTarget' = Undefined
    /\ UNCHANGED <<poolVars, pc, browserInstance, page, releases>>
    /\ UNCHANGED <<dataVars, fnVars, disconnected, idleAtCall,
                   releasedWhileClosing>>

\* A browser process dies (crash, kill): isConnected() turns false.
BrowserDisconnects(h) ==
    /\ h \in launched \ disconnected
    /\ h # closeTarget
    /\ disconnected' = disconnected \cup {h}
    /\ UNCHANGED <<poolVars, pc, browserInstance, page, releases>>
    /\ UNCHANGED <<dataVars, fnVars, closeAllPc, closeTarget, idleAtCall,
                   releasedWhileClosing>>

\* The pool's clients, each releasing at most once, with closeAllBrowsers
\* called at any moment and browsers dying at any moment.
ShutdownNext ==
    \/ \E r \in Requests :
           \/ Arrive(r)
           \/ LaunchOk(r)
           \/ LaunchFail(r)
           \/ ApiReleaseOnce(r)
    \/ CloseAllCall
    \/ CloseDone
    \/ CloseFail
    \/ \E h \in Requests : BrowserDisconnects(h)

ShutdownSpec == Init /\ [][ShutdownNext]_vars

\* C22: closeAllBrowsers terminates every idle handle: when it returns the
\* idle pool is empty and every handle that was idle when it was called, or
\* was released into the pool while it ran, has been closed; and it never
\* closes a handle that is checked out.
C22_CloseAllClosesEveryIdleHandle ==
    [][/\ (closeAllPc' = "returned" /\ closeAllPc # "returned") =>
              /\ browserPool' = <<>>
              /\ (idleAtCall' \cup releasedWhileClosing') \subseteq disconnected'
       /\ closeAllPc' = "closing" =>
              \A r \in Requests :
                  Holds(r)' => browserInstance'[r] # closeTarget']_vars

\* C23: when the idle pool holds a handle, getBrowser returns at once,
\* launching nothing and queueing nobody, the most recently released idle
\* handle (releaseBrowser pushes at the end of browserPool, so that is its
\* last element), and removes it from the idle pool.
C23_ReuseIsImmediateAndLifo ==
    [][\A r \in Requests :
           (pc[r] = "Queued" /\ pc'[r] # "Queued" /\ Len(browserPool) > 0) =>
               /\ pc'[r] = "NewPage"
               /\ browserInstance'[r] = browserPool[Len(browserPool)]
               /\ browserPool' = SubSeq(browserPool, 1, Len(browserPool) - 1)
               /\ browserQueue' = browserQueue
               /\ launched' = launched]_vars

\* A request was handed an idle handle that another request had released,
\* while a second released handle is idle.
C23_Witness ==
    \E r \in Requests :
        /\ Holds(r)
        /\ browserInstance[r] # r
        /\ Len(browserPool) = 1
        /\ \E q \in Requests \ {r} :
               /\ releases[q] = 1
               /\ browserInstance[q] = browserPool[1]
               /\ browserInstance[q] # browserInstance[r]

\* Request r's getBrowser call ends in this step with the launch error.
LaunchFails(r) ==
    /\ pc[r] = "Launching"
    /\ pc'[r] # "Launching"
    /\ browserInstance'[r] = Undefined

\* C24: when the launch fails inside getBrowser, the error goes to that
\* getBrowser caller and to nobody else, the idle pool and the waiter queue
\* are left unchanged, no capacity stays consumed, and a later getBrowser
\* call that finds the pool empty launches a browser again.
C24_LaunchFailureLeavesPoolAlone ==
    [][\A r \in Requests :
           /\ LaunchFails(r) =>
                  /\ error'[r] = "AcquisitionFailure"
                  /\ r \notin launched'
                  /\ <<browserPool, browserQueue, launched>>' =
                         <<browserPool, browserQueue, launched>>
                  /\ \A q \in Requests \ {r} :
                         /\ pc'[q] = pc[q]
                         /\ error'[q] = error[q]
                         /\ browserInstance'[q] = browserInstance[q]
           /\ (/\ pc[r] = "Queued" /\ pc'[r] # "Queued"
               /\ Len(browserPool) = 0
               /\ \E q \in Requests : error[q] = "AcquisitionFailure") =>
                  pc'[r] = "Launching"]_vars

\* After one caller's launch failed, a later caller was given a browser it
\* launched itself.
C24_Witness ==
    \E r, q \in Requests :
        /\ error[r] = "AcquisitionFailure"
        /\ browserInstance[r] = Undefined
        /\ Holds(q)
        /\ browserInstance[q] = q
        /\ q > r
        /\ \A p \in Requests \ {r, q} : pc[p] = "Queued"

\* The steps at which a request's own I/O never completes (see C14).
Stalled == {"WriteStalled", "FallbackWriteStalled"}

\* Request r is inside page.goto on a handle it holds.
NavigationPending(r) == pc[r] = "Navigating" /\ Holds(r)

\* C25: a request whose navigation is pending on one handle does not block
\* the others: while it holds its handle, another request that calls
\* getBrowser when a handle is idle or fewer than MAX_BROWSERS handles are
\* out is given a handle (reused or launched) rather than queued, and every
\* other unfinished request has a next step of its own that it can take
\* without the navigating request moving, up to Ready or Failed.
C25_PendingNavigationBlocksNobody ==
    \A r \in Requests : NavigationPending(r) =>
        \A q \in Requests \ {r} :
            /\ (/\ pc[q] = "Queued"
                /\ \/ Len(browserPool) > 0
                   \/ Cardinality(CheckedOut \cup UnderConstruction) < MAX_BROWSERS)
                   => getBrowser \in {"reuse", "launch"}
            /\ pc[q] \notin Stalled \cup {"Done"} =>
                   ENABLED (Step(q) /\ pc'[q] \notin Stalled /\ pc'[r] = pc[r])

\* One request is still navigating on the browser it launched while another
\* request, on a browser of its own, has finished Ready.
C25_Witness ==
    \E r \in Requests : \E q \in Requests \ {r} :
        /\ NavigationPending(r)
        /\ browserInstance[r] = r
        /\ browserInstance[q] = q
        /\ Returned(q)
        /\ \A p \in Requests \ {r, q} : pc[p] = "Queued"

\* C26: once page.goto has succeeded, the wait for the main-content marker
\* never sends a request to Falling Back, on either platform: whether the
\* marker appears or the wait times out, the request goes on (through the
\* modal handling, where there is one) to the extractor with no primary
\* failure recorded.
C26_MarkerTimeoutStillExtracts ==
    [][\A r \in Requests :
           (pc[r] \in {"WaitMarker", "Dismiss"} /\ pc'[r] # pc[r]) =>
               /\ pc'[r] \in {"Dismiss", "Extracting"}
               /\ error'[r] = "none"
               /\ ~FallingBack(r)']_vars

\* On each platform a request is waiting for the marker after a successful
\* navigation, and the timeout of that wait leads to the extractor.
C26_Witness ==
    \A p \in {"instagram", "facebook"} :
        \E r \in Requests :
            /\ Platform(r) = p
            /\ pc[r] = "WaitMarker"
            /\ ENABLED (MarkerTimeout(r) /\ pc'[r] = "Extracting"
                                         /\ error'[r] = "none")

\* C27: on every request whose navigation succeeded, the dismissal of the
\* login overlay is attempted before the extractor runs, whether or not the
\* marker was found (the extractor is only ever entered from the modal
\* handling), and the modal handling itself always ends in the extractor,
\* never in Falling Back.
C27_DismissalAlwaysAttempted ==
    [][\A r \in Requests :
           /\ (pc'[r] = "Extracting" /\ pc[r] # "Extracting") =>
                  pc[r] = "Dismiss"
           /\ (pc[r] = "Dismiss" /\ pc'[r] # "Dismiss") =>
                  (pc'[r] = "Extracting" /\ error'[r] = "none")]_vars

\* C28: every tab opened with newPage has been closed when its request
\* completes, on every exit path: no finished request leaves its tab open.
C28_TabClosedWhenRequestCompletes ==
    \A r \in Requests : pc[r] = "Done" => page[r] # "open"

\* The order of the statements of one service invocation: acquisition,
\* newPage, goto, marker wait, modal handling, evaluate, primary fetch and
\* write, catch block with the fallback fetch and write, finally block.
PhaseOrder ==
    <<"Queued", "Launching", "Waiting", "NewPage", "Navigating", "WaitMarker",
      "Dismiss", "Extracting", "Fetching", "Writing", "WriteStalled",
      "FallbackFetch", "FallbackWrite", "FallbackWriteStalled", "Closing",
      "Done">>

Phase(p) == CHOOSE i \in 1..Len(PhaseOrder) : PhaseOrder[i] = p

\* C29: a request makes at most one navigation attempt, one primary fetch
\* attempt and one fallback attempt: every change of a request's position
\* moves it forward in the order of the invocation's statements, so no step
\* is entered twice, and once the fallback has failed the request only
\* runs its finally block (no second fallback, no return to the primary).
C29_NoRetries ==
    [][\A r \in Requests :
           pc'[r] # pc[r] =>
               /\ Phase(pc'[r]) > Phase(pc[r])
               /\ thrown[r] # "none" => pc'[r] = "Done"
               /\ thrown'[r] = "FallbackFailure" =>
                      pc'[r] \in {"Closing", "Done"}]_vars

\* A request whose navigation failed and whose fallback then failed has
\* completed, while another made its one primary fetch and was served the
\* fallback after it failed.
C29_Witness ==
    \E r \in Requests : \E q \in Requests \ {r} :
        /\ pc[r] = "Done"
        /\ error[r] = "NavigationFailure"
        /\ thrown[r] = "FallbackFailure"
        /\ Returned(q)
        /\ error[q] = "FetchFailure"
        /\ HasManifest(q)

\* The tokens that open the path of a URL.
PathOpeners == {"/", "/a", "/b", "/c", "/d"}

RECURSIVE PathStart(_, _)
\* The index of the first path token of url at or after i, Len(url) + 1 if
\* the URL has no path.
PathStart(url, i) ==
    IF i > Len(url) \/ url[i] \in PathOpeners THEN i
    ELSE PathStart(url, i + 1)

\* new URL(url).host: what stands between the scheme and the path.
HostOf(url) == SubSeq(url, 2, PathStart(url, 2) - 1)

\* The host is on one of the domains the platform's filter names.
OnCdnDomain(platform, url) ==
    IF platform = "instagram"
    THEN Includes(HostOf(url), "scontent")
             \/ Includes(HostOf(url), "instagram.com")
    ELSE Includes(HostOf(url), "fbcdn.net")
             \/ Includes(HostOf(url), "facebook.com")

\* C30: the extractor accepts a URL only if its host is one of the
\* platform's CDN domains: every candidate returned has such a host, also
\* when the platform's name occurs elsewhere in a matched element's URL.
C30_OnlyCdnHostsAccepted ==
    Extracted =>
        \A i \in 1 .. Len(mediaData) :
            OnCdnDomain(domPlatform, mediaData[i].url)

\* An <img> below the minimum dimension in width or in height.
ThumbnailSized(el) ==
    el.tag = "img" /\ (el.naturalWidth < 300 \/ el.naturalHeight < 300)

\* C31: on both platforms the extractor discards thumbnail-sized images:
\* every candidate comes from a matched element that is not a
\* thumbnail-sized <img>, while a matched <video> or <meta> with an
\* accepted source is a candidate whatever its dimensions.
C31_ThumbnailsDiscardedOnBothPlatforms ==
    Extracted =>
        /\ \A n \in 1 .. Len(mediaData) :
               \E i \in 1 .. Len(dom) :
                   /\ Matched(domPlatform, dom[i])
                   /\ CandidateUrl(i) = mediaData[n].url
                   /\ ~ThumbnailSized(dom[i])
        /\ \A i \in 1 .. Len(dom) :
               (/\ dom[i].tag \in {"video", "meta"}
                /\ Matched(domPlatform, dom[i])
                /\ SrcOf(dom[i]) # NoUrl
                /\ HostAccepted(domPlatform, CandidateUrl(i))) =>
                   PositionOf(CandidateUrl(i)) > 0

\* ------------------------------------------------------------ file names
\* The most files named in one run.
MaxWrites == 2

\* The contentType strings a service can be called with: the four of the
\* client's form and the two the newer route lets through besides.
RequestedTypes == {"post", "story", "reel", "highlight", "image", "video"}

\* uuidv4(): a value no earlier call has returned.
UuidNames == <<"uuid-1", "uuid-2", "uuid-3", "uuid-4">>
uuidv4 == UuidNames[Len(written) + 1]

\* const fileExtension = ... === 'video' ? 'mp4' : 'jpg'
fileExtension(kind) == IF kind = "video" THEN "mp4" ELSE "jpg"

\* A primary name that leaves the unique id out.
PrimaryFilenameWithoutId(platform, contentType, kind) ==
    <<platform, "_", contentType, "_", "media", ".", fileExtension(kind)>>

\* `instagram_${contentType}_${uuidv4()}.${fileExtension}` and Facebook's
\* `facebook_${contentType}_${uuidv4()}.${fileExtension}`.
PrimaryFilename(platform, contentType, kind) ==
    <<platform, "_", contentType, "_", uuidv4, ".", fileExtension(kind)>>

\* `${platform}_${contentType}_fallback_${uuidv4()}.${fileExtension}`
FallbackFilename(platform, contentType) ==
    <<platform, "_", contentType, "_", "fallback", "_", uuidv4, ".",
      fileExtension(FallbackMediaType(contentType))>>

NamingInit ==
    /\ OrchInit
    /\ statSize = NoBytes
    /\ sizeLabel = NoLabel
    /\ dom = <<>>
    /\ domPlatform = "instagram"
    /\ mediaData = <<>>
    /\ extractPc = "idle"
    /\ written = <<>>
    /\ route = NoRoute
    /\ CloseIdle

\* A service names the file of mediaData[0], whose type is kind.
NamePrimary(platform, contentType, kind) ==
    /\ Len(written) < MaxWrites
    /\ written' = Append(written,
                         [platform |-> platform, contentType |-> contentType,
                          path |-> "primary", kind |-> kind,
                          filename |-> PrimaryFilename(platform, contentType,
                                                       kind)])
    /\ UNCHANGED <<poolVars, pc, browserInstance, page, releases>>
    /\ UNCHANGED dataVars
    /\ UNCHANGED <<statSize, sizeLabel, dom, domPlatform, mediaData>>
    /\ UNCHANGED <<extractPc, route>>
    /\ UNCHANGED <<closeVars, releasedWhileClosing>>

\* downloadFallbackContent picks the substitute kind and names its file.
NameFallback(platform, contentType) ==
    /\ Len(written) < MaxWrites
    /\ written' = Append(written,
                         [platform |-> platform, contentType |-> contentType,
                          path |-> "fallback",
                          kind |-> FallbackMediaType(contentType),
                          filename |-> FallbackFilename(platform,
                                                        contentType)])
    /\ UNCHANGED <<poolVars, pc, browserInstance, page, releases>>
    /\ UNCHANGED dataVars
    /\ UNCHANGED <<statSize, sizeLabel, dom, domPlatform, mediaData>>
    /\ UNCHANGED <<extractPc, route>>
    /\ UNCHANGED <<closeVars, releasedWhileClosing>>

NamingNext ==
    \E platform \in {"instagram", "facebook"} :
        \E contentType \in RequestedTypes :
            \/ \E kind \in MediaKinds : NamePrimary(platform, contentType, kind)
            \/ NameFallback(platform, contentType)

NamingSpec == NamingInit /\ [][NamingNext]_vars

\* The fallback calls made so far.
FallbackWrites == {i \in 1 .. Len(written) : written[i].path = "fallback"}

\* C32 as stated: reel always gives video and highlight always image, and
\* for post and for story the next downloadFallbackContent call can give
\* either kind.
C32_PostAndStoryChooseRandomly ==
    /\ \A i \in FallbackWrites :
           /\ written[i].contentType = "reel" => written[i].kind = "video"
           /\ written[i].contentType = "highlight" =>
                  written[i].kind = "image"
    /\ Len(written) < MaxWrites =>
           \A contentType \in {"post", "story"} : \A kind \in MediaKinds :
               ENABLED (/\ NameFallback("instagram", contentType)
                        /\ written'[Len(written')].kind = kind)

\* C32, amended: the substitute kind is fixed by the requested content
\* type: reel and story always give video, post and highlight always give
\* image.
C32_SubstituteKindFixedByType ==
    \A i \in FallbackWrites :
        /\ written[i].contentType \in {"reel", "story"} =>
               written[i].kind = "video"
        /\ written[i].contentType \in {"post", "highlight"} =>
               written[i].kind = "image"

\* Fallbacks were served for a post and for a story: an image and a video.
C32_Witness ==
    \E i, j \in FallbackWrites :
        /\ written[i].contentType = "post" /\ written[i].kind = "image"
        /\ written[j].contentType = "story" /\ written[j].kind = "video"

\* The values uuidv4 returns.
Uuids == {UuidNames[n] : n \in 1 .. Len(UuidNames)}

\* <platform>_<contentType>_<uniqueId>.<ext>
HasPattern(w) ==
    /\ Len(w.filename) = 7
    /\ w.filename[5] \in Uuids
    /\ w.filename = <<w.platform, "_", w.contentType, "_", w.filename[5],
                      ".", fileExtension(w.kind)>>

\* <platform>_<contentType>_fallback_<uniqueId>.<ext>
HasFallbackPattern(w) ==
    /\ Len(w.filename) = 9
    /\ w.filename[7] \in Uuids
    /\ w.filename = <<w.platform, "_", w.contentType, "_", "fallback", "_",
                      w.filename[7], ".", fileExtension(w.kind)>>

\* No two calls named the same file.
NamesDiffer ==
    \A i, j \in 1 .. Len(written) :
        i # j => written[i].filename # written[j].filename

\* C33 as stated: every file, of the primary fetch and of the fallback
\* alike, is named exactly <platform>_<contentType>_<uniqueId>.<ext> with
\* mp4 for video and jpg for image, and no two calls use the same name.
C33_EveryNameHasThePattern ==
    /\ \A i \in 1 .. Len(written) : HasPattern(written[i])
    /\ NamesDiffer

\* C33, amended: a primary file is named
\* <platform>_<contentType>_<uniqueId>.<ext> and a fallback file
\* <platform>_<contentType>_fallback_<uniqueId>.<ext>, with mp4 for video
\* and jpg for image, and no two calls use the same name.
C33_NamesPatternedAndDistinct ==
    /\ \A i \in 1 .. Len(written) :
           IF written[i].path = "primary"
           THEN HasPattern(written[i])
           ELSE HasFallbackPattern(written[i])
    /\ NamesDiffer

\* A primary file and a fallback file were named for the same platform,
\* content type and kind.
C33_Witness ==
    \E i, j \in 1 .. Len(written) :
        /\ written[i].path = "primary"
        /\ written[j].path = "fallback"
        /\ written[i].platform = written[j].platform
        /\ written[i].contentType = written[j].contentType
        /\ written[i].kind = written[j].kind

\* C34: formatFileSize renders every byte count as a label whose unit is
\* one of Bytes, KB, MB, GB, chosen base 1024: '0 Bytes' for 0, and for a
\* count of 1 or more the unit of index floor(log1024 b) with a numeric
\* part of at least 1 and below 1024, also at 1024, 1024^2, 1024^3 and from
\* 1024^4 on.
C34_LabelUnitAndRange ==
    sizeLabel # NoLabel =>
        /\ sizeLabel.unit \in {"Bytes", "KB", "MB", "GB"}
        /\ statSize = NoBytes => sizeLabel = [value |-> 0, unit |-> "Bytes"]
        /\ statSize # NoBytes =>
               /\ sizeLabel.value >= 100
               /\ sizeLabel.value < 100 * k
               /\ \A n \in 0 .. 3 :
                      Len(statSize) = n + 1 => sizeLabel.unit = sizes[n + 1]

C36_CloseFailureStillReleases ==
    [][\A r \in Requests :
           (pc[r] = "Closing" /\ pc'[r] = "Done") =>
               /\ browserInstance[r] # Undefined =>
                      releases'[r] = releases[r] + 1
               /\ manifest'[r] = manifest[r]
               /\ thrown'[r] = thrown[r]]_vars

\* C37: getBrowser never hands a caller a browser whose process is gone:
\* on every step that gives a caller a browser (popped from the pool,
\* launched, or passed on by a release), that browser is connected.
C37_NoDeadHandleHandedOut ==
    [][\A r \in Requests :
           (browserInstance'[r] # Undefined
                /\ browserInstance'[r] # browserInstance[r]) =>
               browserInstance'[r] \notin disconnected]_vars

\* -------------------------------------------------- POST /api/download
\* The url values posted: absent or empty, blank, not http(s), and http(s)
\* URLs of a post, one of them with "demo" in its path and one on a
\* test-content host.
PostedUrls ==
    { <<>>, <<" ">>, <<"ftp://", "instagram.com", "/p/", "abc">>,
      <<"http://", "instagram.com", "/p/", "abc">>,
      <<"https://", "instagram.com", "/p/", "abc">>,
      <<"https://", "instagram.com", "/p/", "demo", "abc">>,
      <<"https://", "test-content", ".", "example.com", "/x">> }

\* The platform and contentType values posted ("undefined": field absent).
PostedPlatforms ==
    {"instagram", "facebook", "test", "Instagram", "tiktok", "undefined"}
PostedContentTypes ==
    {"post", "story", "reel", "highlight", "image", "video", "Reel",
     "undefined"}

\* String.prototype.toLowerCase on the values posted.
toLowerCase(str) ==
    CASE str = "Instagram" -> "instagram"
      [] str = "Reel" -> "reel"
      [] OTHER -> str

\* url.trim()
trim(url) == SelectSeq(url, LAMBDA t : t # " ")

\* url.startsWith(prefix)
startsWith(url, prefix) == Len(url) > 0 /\ url[1] = prefix

allowedPlatforms == {"instagram", "facebook", "test"}
allowedContentTypes == {"image", "video", "reel", "story"}

BadRequest == [status |-> "400", service |-> "none", contentType |-> "none"]

Dispatched(service, contentType) ==
    [status |-> "200", service |-> service, contentType |-> contentType]

\* The handler of app.post('/api/download'), up to the call of a service.
DownloadRoute(req) ==
    IF req.url = <<>> \/ trim(req.url) = <<>> THEN BadRequest
    ELSE IF ~startsWith(req.url, "http://") /\ ~startsWith(req.url, "https://")
         THEN BadRequest
    ELSE IF req.platform = "undefined"
                \/ toLowerCase(req.platform) \notin allowedPlatforms
         THEN BadRequest
    ELSE IF req.contentType = "undefined"
                \/ toLowerCase(req.contentType) \notin allowedContentTypes
         THEN BadRequest
    ELSE LET lowerCasePlatform == toLowerCase(req.platform)
             lowerCaseContentType == toLowerCase(req.contentType)
         IN  IF Includes(req.url, "test-content") \/ Includes(req.url, "demo")
                    \/ lowerCasePlatform = "test"
             THEN Dispatched("downloadTestContent", lowerCaseContentType)
             ELSE IF lowerCasePlatform = "instagram"
                  THEN Dispatched("downloadInstagramContent",
                                  lowerCaseContentType)
             ELSE IF lowerCasePlatform = "facebook"
                  THEN Dispatched("downloadFacebookContent",
                                  lowerCaseContentType)
             ELSE BadRequest

RouteInit ==
    /\ OrchInit
    /\ statSize = NoBytes
    /\ sizeLabel = NoLabel
    /\ dom = <<>>
    /\ domPlatform = "instagram"
    /\ mediaData = <<>>
    /\ extractPc = "idle"
    /\ written = <<>>
    /\ route \in [url : PostedUrls, platform : PostedPlatforms,
                  contentType : PostedContentTypes, outcome : {NoOutcome}]
    /\ CloseIdle

\* The route handles the request posted.
HandleDownload ==
    /\ route.outcome = NoOutcome
    /\ route' = [route EXCEPT !.outcome = DownloadRoute(route)]
    /\ UNCHANGED <<poolVars, pc, browserInstance, page, releases>>
    /\ UNCHANGED dataVars
    /\ UNCHANGED <<statSize, sizeLabel, dom, domPlatform, mediaData>>
    /\ UNCHANGED <<extractPc, written>>
    /\ UNCHANGED <<closeVars, releasedWhileClosing>>

RouteSpec == RouteInit /\ [][HandleDownload]_vars

\* A DownloadRequest as the spec defines it.
WellFormed(req) ==
    /\ startsWith(req.url, "http://") \/ startsWith(req.url, "https://")
    /\ req.platform \in {"instagram", "facebook"}
    /\ req.contentType \in {"post", "story", "reel", "highlight"}

\* The orchestrator of a platform.
OrchestratorOf(platform) ==
    IF platform = "instagram" THEN "downloadInstagramContent"
    ELSE "downloadFacebookContent"

\* C38: every well-formed DownloadRequest posted to /api/download is
\* dispatched to the orchestrator of its platform with its contentType;
\* validation rejects none of post, story, reel and highlight.
C38_WellFormedRequestsDispatched ==
    (route.outcome # NoOutcome /\ WellFormed(route)) =>
        route.outcome = Dispatched(OrchestratorOf(route.platform),
                                   route.contentType)

====
